---- MODULE Spec2Model ----
(***************************************************************************)
(* Onchain Summer Lagos backend: the NFT record schema (models/NFT.js),    *)
(* the record store behind it (a MongoDB collection with a unique index on *)
(* transactionHash) and the request handlers (nftController.js).           *)
(*                                                                         *)
(* JavaScript strings that the code inspects or converts (addresses,       *)
(* hashes, CIDs, URLs, query parameters) are sequences of one-character    *)
(* strings, so that toLowerCase, the regular expressions and parseInt are  *)
(* computed character by character.  JavaScript objects are functions from *)
(* key names to values; an undefined property is a key that is absent.     *)
(* Messages that are only passed through are plain TLA+ strings.           *)
(* The characters are those a TLA+ string can hold, the ASCII ones: a      *)
(* string with a character outside ASCII is outside the model's inputs.    *)
(***************************************************************************)
EXTENDS Integers, Sequences, FiniteSets, TLC

VARIABLES store, clock, pc, req, local, resp, dbCalls, statsResp

vars == <<store, clock, pc, req, local, resp, dbCalls, statsResp>>

(***************************************************************************)
(* Bounds of the model.                                                    *)
(***************************************************************************)
MaxTicks == 2        \* the clock advances at most this many milliseconds
MaxPageArg == 2      \* largest ?page= value a list request carries
MaxLimitArg == 2     \* largest ?limit= value a list request carries
MaxRecords == 3      \* the transaction hashes one owner submits

(***************************************************************************)
(* Characters and strings.                                                 *)
(***************************************************************************)
Digits == {"0", "1", "2", "3", "4", "5", "6", "7", "8", "9"}

UpperToLower ==
  [c \in {"A", "B", "C", "D", "E", "F", "G", "H", "I", "J", "K", "L", "M",
          "N", "O", "P", "Q", "R", "S", "T", "U", "V", "W", "X", "Y", "Z"} |->
     CASE c = "A" -> "a" [] c = "B" -> "b" [] c = "C" -> "c" [] c = "D" -> "d"
       [] c = "E" -> "e" [] c = "F" -> "f" [] c = "G" -> "g" [] c = "H" -> "h"
       [] c = "I" -> "i" [] c = "J" -> "j" [] c = "K" -> "k" [] c = "L" -> "l"
       [] c = "M" -> "m" [] c = "N" -> "n" [] c = "O" -> "o" [] c = "P" -> "p"
       [] c = "Q" -> "q" [] c = "R" -> "r" [] c = "S" -> "s" [] c = "T" -> "t"
       [] c = "U" -> "u" [] c = "V" -> "v" [] c = "W" -> "w" [] c = "X" -> "x"
       [] c = "Y" -> "y" [] c = "Z" -> "z"]

UpperLetters == DOMAIN UpperToLower
LowerLetters == {UpperToLower[c] : c \in UpperLetters}
HexChars == Digits \cup {"a", "b", "c", "d", "e", "f"} \cup {"A", "B", "C", "D", "E", "F"}
AlNumChars == Digits \cup LowerLetters \cup UpperLetters

\* the line terminators and the white space of ECMAScript, as far as ASCII
\* has them
LineTerminators == {"\n", "\r"}
\* the vertical tab, U+000B, written as the character itself
VerticalTab == ""
WhiteSpace == {" ", "\t", "\n", VerticalTab, "\f", "\r"}

Rep(c, n) == [i \in 1..n |-> c]

\* String.prototype.toLowerCase
ToLowerCaseWrong(s) == s
ToLowerCase(s) == [i \in 1..Len(s) |-> IF s[i] \in UpperLetters THEN UpperToLower[s[i]] ELSE s[i]]

StartsWith(s, pre) == Len(s) >= Len(pre) /\ SubSeq(s, 1, Len(pre)) = pre
AllIn(s, from, chars) == \A i \in from..Len(s) : s[i] \in chars

\* JavaScript truthiness of an optional string property: !obj.key
Has(obj, key) == key \in DOMAIN obj /\ obj[key] # <<>>

(***************************************************************************)
(* Literals of the code.                                                   *)
(***************************************************************************)
AddrHexLen == 40
HashHexLen == 64
CidBodyLen == 44
BaseMainnet == 8453
BaseSepolia == 84532
DefaultPage == 1
DefaultLimit == 10
MsPerDay == 1000 * 60 * 60 * 24

OxPrefix == <<"0", "x">>
QmPrefix == <<"Q", "m">>
IpfsScheme == <<"i", "p", "f", "s", ":", "/", "/">>
HttpsScheme == <<"h", "t", "t", "p", "s", ":", "/", "/">>
PinataPath == <<".", "p", "i", "n", "a", "t", "a", ".", "c", "l", "o", "u", "d", "/", "i", "p", "f", "s", "/">>
PinataGateway == <<"h", "t", "t", "p", "s", ":", "/", "/", "g", "a", "t", "e", "w", "a", "y", ".", "p", "i", "n", "a", "t", "a", ".", "c", "l", "o", "u", "d", "/", "i", "p", "f", "s", "/">>
BasescanTx == <<"h", "t", "t", "p", "s", ":", "/", "/", "b", "a", "s", "e", "s", "c", "a", "n", ".", "o", "r", "g", "/", "t", "x", "/">>
SepoliaBasescanTx == <<"h", "t", "t", "p", "s", ":", "/", "/", "s", "e", "p", "o", "l", "i", "a", ".", "b", "a", "s", "e", "s", "c", "a", "n", ".", "o", "r", "g", "/", "t", "x", "/">>
DefaultEventName == "Onchain Summer Lagos"
RequiredFields == <<"walletAddress", "ipfsCid", "metadataUri", "tokenId", "contractAddress", "transactionHash">>
StatusEnum == {"pending", "confirmed", "failed"}

(***************************************************************************)
(* The schema's regular expressions.                                       *)
(***************************************************************************)
\* /^0x[a-fA-F0-9]{40}$/
IsAddress(s) == Len(s) = 2 + AddrHexLen /\ StartsWith(s, OxPrefix) /\ AllIn(s, 3, HexChars)
\* /^0x[a-fA-F0-9]{64}$/
IsTxHash(s) == Len(s) = 2 + HashHexLen /\ StartsWith(s, OxPrefix) /\ AllIn(s, 3, HexChars)
\* /^Qm[a-zA-Z0-9]{44}$/
IsCid(s) == Len(s) = 2 + CidBodyLen /\ StartsWith(s, QmPrefix) /\ AllIn(s, 3, AlNumChars)
\* /^ipfs:\/\/Qm[a-zA-Z0-9]{44}$/
IsIpfsUri(s) == StartsWith(s, IpfsScheme) /\ IsCid(SubSeq(s, Len(IpfsScheme) + 1, Len(s)))
\* !v || /^https:\/\/.*\.pinata\.cloud\/ipfs\/Qm[a-zA-Z0-9]{44}$/.test(v)
\* (the tail after ".*" has a fixed length and is anchored at the end, so
\* ".*" is whatever lies between the scheme and the tail; "." matches no
\* line terminator)
IsPinataUrl(v) ==
  \/ v = <<>>
  \/ LET tail == Len(PinataPath) + 2 + CidBodyLen IN
       /\ Len(v) >= Len(HttpsScheme) + tail
       /\ StartsWith(v, HttpsScheme)
       /\ \A i \in (Len(HttpsScheme) + 1)..(Len(v) - tail) : v[i] \notin LineTerminators
       /\ SubSeq(v, Len(v) - tail + 1, Len(v) - 2 - CidBodyLen) = PinataPath
       /\ IsCid(SubSeq(v, Len(v) - 1 - CidBodyLen, Len(v)))

(***************************************************************************)
(* Objects.                                                                *)
(***************************************************************************)
Nil == [nil |-> TRUE]

\* the object without the given keys
Without(obj, keys) == [k \in DOMAIN obj \ keys |-> obj[k]]

\* obj with key set to val
With(obj, key, val) == [k \in DOMAIN obj \cup {key} |-> IF k = key THEN val ELSE obj[k]]

\* {}
EmptyObject == [k \in {} |-> Nil]

\* { key: from[name] } when from[name] is defined, {} otherwise
Pick(key, from, name) ==
  IF name \in DOMAIN from THEN [k \in {key} |-> from[name]] ELSE EmptyObject

(***************************************************************************)
(* models/NFT.js: the schema.                                              *)
(***************************************************************************)
LowercasedPaths == {"walletAddress", "contractAddress", "transactionHash"}

\* A JSON number is [num |-> n], a JSON string [str |-> characters].
\* JavaScript truthiness of such a value
Truthy(v) == IF "num" \in DOMAIN v THEN v.num # 0 ELSE v.str # <<>>

\* A Date object is [time |-> milliseconds] or InvalidDate.
InvalidDate == [invalid |-> TRUE]

\* new Date(v).  A number within the range of time values (all the integers
\* of the model are) is that time value; a string is parsed, and a string
\* without any digit is no date.  The parse of the other strings is left
\* out: they are not among the inputs.
NewDate(v) ==
  CASE "num" \in DOMAIN v -> [time |-> v.num]
    [] "str" \in DOMAIN v /\ \A i \in DOMAIN v.str : v.str[i] \notin Digits -> InvalidDate

\* one entry of ValidationError.errors
VErr(path, message) == [field |-> path, message |-> message]

\* new NFT(nftData): the "lowercase: true" setters, the cast of
\* eventData.mintedAt to a Date (an Invalid Date is not set) and the
\* defaults of networkChainId and status
NewNFT(nftData) ==
  [k \in DOMAIN nftData |->
     IF k \in LowercasedPaths THEN ToLowerCase(nftData[k])
     ELSE IF k = "eventData"
       THEN [eventName |-> nftData.eventData.eventName]
            @@ (IF "time" \in DOMAIN nftData.eventData.mintedAt
                  THEN [mintedAt |-> nftData.eventData.mintedAt.time]
                  ELSE EmptyObject)
     ELSE nftData[k]]
  @@ [networkChainId |-> BaseMainnet, status |-> "confirmed"]

\* the cast errors new NFT(nftData) records for validation to report
CastErrors(nftData) ==
  IF "time" \in DOMAIN nftData.eventData.mintedAt THEN {}
  ELSE {VErr("eventData.mintedAt",
             "Cast to date failed for value \"Invalid Date\" (type Date) at path \"eventData.mintedAt\"")}

\* the message of a failed enum validator (the library writes the value and
\* the path between backquotes, which a TLA+ string cannot hold)
EnumMessage(value, path) == value \o " is not a valid enum value for path " \o path \o "."

\* a required string path with a match validator: the required validator
\* fails on undefined and on "", the match validator skips those
\* (matches is the match validator's verdict on doc[path])
StringPathErrors(doc, path, requiredMsg, matches, matchMsg) ==
  IF ~Has(doc, path) THEN {VErr(path, requiredMsg)}
  ELSE IF ~matches THEN {VErr(path, matchMsg)}
  ELSE {}

\* document validation against nftSchema: every failing path is reported
Validate(doc) ==
  StringPathErrors(doc, "walletAddress", "Wallet address is required",
                   IsAddress(doc.walletAddress), "Invalid Ethereum address format")
  \cup StringPathErrors(doc, "ipfsCid", "IPFS CID is required",
                        IsCid(doc.ipfsCid), "Invalid IPFS CID format")
  \cup StringPathErrors(doc, "metadataUri", "Metadata URI is required",
                        IsIpfsUri(doc.metadataUri), "Invalid IPFS URI format")
  \cup StringPathErrors(doc, "tokenId", "Token ID is required",
                        TRUE, "")
  \cup StringPathErrors(doc, "contractAddress", "Contract address is required",
                        IsAddress(doc.contractAddress), "Invalid contract address format")
  \cup StringPathErrors(doc, "transactionHash", "Transaction hash is required",
                        IsTxHash(doc.transactionHash), "Invalid transaction hash format")
  \cup (IF doc.eventData.eventName # DefaultEventName
          THEN {VErr("eventData.eventName",
                     EnumMessage(doc.eventData.eventName, "eventData.eventName"))}
          ELSE {})
  \cup (IF "mintedAt" \notin DOMAIN doc.eventData
          THEN {VErr("eventData.mintedAt", "Mint timestamp is required")} ELSE {})
  \cup (IF doc.networkChainId \notin {BaseMainnet, BaseSepolia}
          THEN {VErr("networkChainId",
                     EnumMessage(ToString(doc.networkChainId), "networkChainId"))}
          ELSE {})
  \cup (IF "imageUrl" \in DOMAIN doc /\ ~IsPinataUrl(doc.imageUrl)
          THEN {VErr("imageUrl", "Invalid Pinata image URL format")} ELSE {})
  \cup (IF doc.status \notin StatusEnum
          THEN {VErr("status", EnumMessage(doc.status, "status"))} ELSE {})

\* ValidationError.errors of document.validate(): a path whose cast failed
\* keeps its cast error, the other paths are validated
ValidationErrors(doc, castErrors) ==
  castErrors \cup {e \in Validate(doc) : \A c \in castErrors : c.field # e.field}

\* nftSchema.pre('save'): lowercase the three address fields
PreSave(doc) ==
  [k \in DOMAIN doc |->
     IF k \in LowercasedPaths /\ doc[k] # <<>> THEN ToLowerCase(doc[k]) ELSE doc[k]]

\* the virtuals
PinataImageUrl(doc) == IF Has(doc, "ipfsCid") THEN PinataGateway \o doc.ipfsCid ELSE Nil

BlockExplorerUrl(doc) ==
  (IF doc.networkChainId = BaseMainnet THEN BasescanTx ELSE SepoliaBasescanTx)
  \o doc.transactionHash

\* res.json(document): toJSON with virtuals (id, pinataImageUrl, blockExplorerUrl)
ToJSON(doc) ==
  doc @@ [id |-> doc._id, pinataImageUrl |-> PinataImageUrl(doc),
          blockExplorerUrl |-> BlockExplorerUrl(doc)]

(***************************************************************************)
(* The collection: a sequence of documents in insertion order.             *)
(***************************************************************************)
Indices(coll) == 1..Len(coll)

\* Model.findOne({ transactionHash: h }): a matching document, or Nil
FindOne(coll, h) ==
  IF \E i \in Indices(coll) : coll[i].transactionHash = h
    THEN coll[CHOOSE i \in Indices(coll) : coll[i].transactionHash = h]
    ELSE Nil

\* the unique index on transactionHash admits the document
UniqueIndexAdmitsWrong(coll, doc) == TRUE
UniqueIndexAdmits(coll, doc) ==
  \A i \in Indices(coll) : coll[i].transactionHash # doc.transactionHash

\* the documents matching { walletAddress: w, status: 'confirmed' }, by position
MatchOwner(coll, w) ==
  {i \in Indices(coll) : coll[i].walletAddress = w /\ coll[i].status = "confirmed"}

\* statics.getUserNFTCount
getUserNFTCount(coll, walletAddress) ==
  Cardinality(MatchOwner(coll, ToLowerCase(walletAddress)))

\* the orders .sort({ createdAt: -1 }) may return the positions S in: any
\* order that is descending in createdAt (the order of ties is unspecified)
SortedByCreatedAtDesc(coll, S) ==
  {q \in [1..Cardinality(S) -> S] :
     /\ \A i, j \in DOMAIN q : i # j => q[i] # q[j]
     /\ \A i, j \in DOMAIN q : i < j => coll[q[i]].createdAt >= coll[q[j]].createdAt}

\* .skip(skip).limit(limit) of an ordered result, for skip >= 0 and
\* limit # 0; the driver sends a negative limit as its absolute value
SkipLimit(q, skip, limit) ==
  LET n == IF limit < 0 THEN -limit ELSE limit IN
  SubSeq(q, skip + 1, IF skip + n < Len(q) THEN skip + n ELSE Len(q))

\* .select('-userAgent -ipAddress').lean()
SelectLean(doc) == Without(doc, {"userAgent", "ipAddress"})

\* one group of statics.getEventStats: $match confirmed, $group by
\* eventData.eventName, $project
Min(S) == CHOOSE x \in S : \A y \in S : x <= y
Max(S) == CHOOSE x \in S : \A y \in S : x >= y

StatsMatchWrong(coll) == Indices(coll)
StatsMatch(coll) == {i \in Indices(coll) : coll[i].status = "confirmed"}

EventGroup(coll, M, name) ==
  LET G == {i \in M : coll[i].eventData.eventName = name} IN
  [_id |-> name,
   eventName |-> name,
   totalMints |-> Cardinality(G),
   uniqueUserCount |-> Cardinality({coll[i].walletAddress : i \in G}),
   firstMint |-> Min({coll[i].eventData.mintedAt : i \in G}),
   lastMint |-> Max({coll[i].eventData.mintedAt : i \in G})]

\* statics.getEventStats: the groups (their order is unspecified)
getEventStats(coll) ==
  LET M == StatsMatch(coll) IN
  {EventGroup(coll, M, name) : name \in {coll[i].eventData.eventName : i \in M}}

RECURSIVE SumOver(_, _)
SumOver(S, key) ==
  IF S = {} THEN 0
  ELSE LET g == CHOOSE x \in S : TRUE IN g[key] + SumOver(S \ {g}, key)

(***************************************************************************)
(* nftController.js: pure parts of the handlers.                           *)
(***************************************************************************)
\* the value of a digit in radix 10 or 16
DigitValue(c) ==
  CASE c = "0" -> 0 [] c = "1" -> 1 [] c = "2" -> 2 [] c = "3" -> 3 [] c = "4" -> 4
    [] c = "5" -> 5 [] c = "6" -> 6 [] c = "7" -> 7 [] c = "8" -> 8 [] c = "9" -> 9
    [] c \in {"a", "A"} -> 10 [] c \in {"b", "B"} -> 11 [] c \in {"c", "C"} -> 12
    [] c \in {"d", "D"} -> 13 [] c \in {"e", "E"} -> 14 [] c \in {"f", "F"} -> 15

\* the value of the longest run of radix digits of s that starts at i
RECURSIVE DigitsValue(_, _, _, _)
DigitsValue(s, i, radix, acc) ==
  IF i > Len(s) \/ s[i] \notin (IF radix = 16 THEN HexChars ELSE Digits) THEN acc
  ELSE DigitsValue(s, i + 1, radix, radix * acc + DigitValue(s[i]))

\* the first position of s at or after i that holds no white space
RECURSIVE SkipWhite(_, _)
SkipWhite(s, i) ==
  IF i > Len(s) \/ s[i] \notin WhiteSpace THEN i ELSE SkipWhite(s, i + 1)

\* parseInt(q[key]) || dflt for a query parameter that is undefined or a
\* string.  parseInt skips leading white space, takes a sign, takes a
\* 0x/0X prefix as radix 16, and reads the longest run of digits; no digit
\* at all is NaN.  NaN and 0 are falsy and give the default.
ParseIntOr(q, key, dflt) ==
  IF key \notin DOMAIN q THEN dflt
  ELSE LET s == q[key]
           i == SkipWhite(s, 1)
           neg == i <= Len(s) /\ s[i] = "-"
           j == IF i <= Len(s) /\ s[i] \in {"+", "-"} THEN i + 1 ELSE i
           hex == j + 1 <= Len(s) /\ s[j] = "0" /\ s[j + 1] \in {"x", "X"}
           k == IF hex THEN j + 2 ELSE j
           radix == IF hex THEN 16 ELSE 10
           n == DigitsValue(s, k, radix, 0)
       IN IF k > Len(s) \/ s[k] \notin (IF hex THEN HexChars ELSE Digits) THEN dflt
          ELSE IF n = 0 THEN dflt
          ELSE IF neg THEN -n ELSE n

\* Math.ceil(a / b) for b # 0
CeilDiv(a, b) == IF b > 0 THEN -((-a) \div b) ELSE -(a \div (-b))

\* the format check of getUserNFTs:
\* !walletAddress || !/^0x[a-fA-F0-9]{40}$/.test(walletAddress)
BadWalletParamWrong(walletAddress) ==
  walletAddress = <<>> \/ ~StartsWith(walletAddress, OxPrefix)
BadWalletParam(walletAddress) ==
  \/ walletAddress = <<>>
  \/ ~(/\ Len(walletAddress) = 2 + AddrHexLen
       /\ StartsWith(walletAddress, OxPrefix)
       /\ AllIn(walletAddress, 3, HexChars))

\* the owner the find of getUserNFTs filters on
OwnerFilterWrong(walletAddress) == walletAddress
OwnerFilter(walletAddress) == ToLowerCase(walletAddress)

\* (page - 1) * limit
SkipOfWrong(page, limit) == page * limit
SkipOf(page, limit) == (page - 1) * limit

\* the required-field check of saveNFT
MissingRequired(body) == \E i \in DOMAIN RequiredFields : ~Has(body, RequiredFields[i])

\* req.ip || req.connection.remoteAddress: conn holds the two, each one
\* undefined (absent) or a string
IpAddress(conn) ==
  IF "ip" \in DOMAIN conn /\ conn.ip # "" THEN [ipAddress |-> conn.ip]
  ELSE Pick("ipAddress", conn, "remoteAddress")

\* nftData of saveNFT: headers are the request's headers, conn its req.ip
\* and req.connection.remoteAddress, now the clock at new Date()
NftData(body, headers, conn, now) ==
  LET ev == IF "eventData" \in DOMAIN body THEN body.eventData ELSE EmptyObject IN
  [walletAddress |-> body.walletAddress,
   ipfsCid |-> body.ipfsCid,
   metadataUri |-> body.metadataUri,
   tokenId |-> body.tokenId,
   contractAddress |-> body.contractAddress,
   transactionHash |-> body.transactionHash,
   eventData |-> [eventName |-> IF "eventName" \in DOMAIN ev /\ ev.eventName # ""
                                  THEN ev.eventName ELSE DefaultEventName,
                  mintedAt |-> IF "mintedAt" \in DOMAIN ev /\ Truthy(ev.mintedAt)
                                 THEN NewDate(ev.mintedAt) ELSE [time |-> now]],
   imageUrl |-> PinataGateway \o body.ipfsCid]
  @@ Pick("userAgent", headers, "User-Agent") @@ IpAddress(conn)

\* one element of enrichedNFTs
Enrich(nft, now) ==
  nft @@ [pinataImageUrl |-> PinataGateway \o nft.ipfsCid,
          blockExplorerUrl |-> (IF nft.networkChainId = BaseMainnet
                                  THEN BasescanTx ELSE SepoliaBasescanTx)
                               \o nft.transactionHash,
          daysAgo |-> (now - nft.eventData.mintedAt) \div MsPerDay]

Response(code, body) == [status |-> code, body |-> body]

(***************************************************************************)
(* State.                                                                  *)
(*   store      the collection                                             *)
(*   clock      Date.now(), in milliseconds                                *)
(*   pc         where each request in flight stands (its next await)       *)
(*   req        the request a handler is serving                           *)
(*   local      the handler's local variables across its awaits            *)
(*   resp       the response a handler has sent                            *)
(*   dbCalls    the store operations the request has performed so far      *)
(*   statsResp  the last response of getEventStats                         *)
(***************************************************************************)
Savers == {"s1", "s2"}
Listers == {"l1"}
Updaters == {"u1", "u2"}
Procs == Savers \cup Listers \cup Updaters

StartClock == MsPerDay

Init ==
  /\ store = <<>>
  /\ clock = StartClock
  /\ pc = [p \in Procs |-> "idle"]
  /\ req = [p \in Procs |-> Nil]
  /\ local = [p \in Procs |-> Nil]
  /\ resp = [p \in Procs |-> Nil]
  /\ dbCalls = [p \in Procs |-> <<>>]
  /\ statsResp = Nil

\* the handler answers: res.status(code).json(body)
Send(p, code, body) ==
  /\ resp' = [resp EXCEPT ![p] = Response(code, body)]
  /\ pc' = [pc EXCEPT ![p] = "done"]

(***************************************************************************)
(* saveNFT, one action per await.                                          *)
(***************************************************************************)
\* POST /api/nfts arrives: the required-field check, up to the first await
SaveReceive(p, body, headers, conn) ==
  /\ pc[p] = "idle"
  /\ dbCalls' = [dbCalls EXCEPT ![p] = <<>>]
  /\ req' = [req EXCEPT ![p] = [body |-> body, headers |-> headers, conn |-> conn]]
  /\ IF MissingRequired(body)
       THEN Send(p, 400, [success |-> FALSE,
                          message |-> "Missing required fields",
                          required |-> RequiredFields])
       ELSE /\ pc' = [pc EXCEPT ![p] = "findOne"]
            /\ resp' = resp
  /\ UNCHANGED <<store, clock, local, statsResp>>

\* await NFT.findOne(...) resolves; the handler answers 409 or builds
\* nftData (new Date() for a mintedAt the payload lacks), constructs the
\* document and calls save()
SaveFindOne(p) ==
  /\ pc[p] = "findOne"
  /\ dbCalls' = [dbCalls EXCEPT ![p] = Append(@, "findOne")]
  /\ LET existingNFT == FindOne(store, ToLowerCase(req[p].body.transactionHash))
         nftData == NftData(req[p].body, req[p].headers, req[p].conn, clock)
     IN IF existingNFT # Nil
          THEN /\ Send(p, 409, [success |-> FALSE,
                                message |-> "NFT already recorded",
                                data |-> ToJSON(existingNFT)])
               /\ local' = local
          ELSE /\ pc' = [pc EXCEPT ![p] = "save"]
               /\ local' = [local EXCEPT ![p] = [newNFT |-> NewNFT(nftData),
                                                 castErrors |-> CastErrors(nftData)]]
               /\ resp' = resp
  /\ UNCHANGED <<store, clock, req, statsResp>>

\* save() runs its asynchronous middleware: validation, whose error the
\* catch block answers with 400, then the pre-save hooks (the lowercasing
\* hook and the timestamps, read from the clock as it stands now), after
\* which the insert is sent
SaveValidate(p) ==
  /\ pc[p] = "save"
  /\ LET errors == ValidationErrors(local[p].newNFT, local[p].castErrors) IN
     IF errors # {}
       THEN /\ Send(p, 400, [success |-> FALSE,
                             message |-> "Validation failed",
                             errors |-> errors])
            /\ local' = local
       ELSE /\ pc' = [pc EXCEPT ![p] = "insert"]
            /\ local' = [local EXCEPT ![p] =
                           PreSave(local[p].newNFT) @@ [createdAt |-> clock, updatedAt |-> clock]]
            /\ resp' = resp
  /\ UNCHANGED <<store, clock, req, dbCalls, statsResp>>

\* the insert reaches the collection: the unique index admits it or the
\* driver throws E11000, which the catch block answers with 409
SaveInsert(p) ==
  /\ pc[p] = "insert"
  /\ dbCalls' = [dbCalls EXCEPT ![p] = Append(@, "insertOne")]
  /\ IF UniqueIndexAdmits(store, local[p])
       THEN LET savedNFT == local[p] @@ [_id |-> Len(store) + 1] IN
            /\ store' = Append(store, savedNFT)
            /\ local' = [local EXCEPT ![p] = savedNFT]
            /\ pc' = [pc EXCEPT ![p] = "count"]
            /\ resp' = resp
       ELSE /\ Send(p, 409, [success |-> FALSE,
                             message |-> "Duplicate transaction hash",
                             error |-> "This NFT has already been recorded"])
            /\ UNCHANGED <<store, local>>
  /\ UNCHANGED <<clock, req, statsResp>>

\* await NFT.getUserNFTCount(walletAddress) resolves: the 201 answer
SaveCount(p) ==
  /\ pc[p] = "count"
  /\ dbCalls' = [dbCalls EXCEPT ![p] = Append(@, "countDocuments")]
  /\ LET userNFTCount == getUserNFTCount(store, req[p].body.walletAddress) IN
     Send(p, 201, [success |-> TRUE,
                   message |-> "NFT saved successfully",
                   data |-> ToJSON(local[p]),
                   meta |-> [userTotalNFTs |-> userNFTCount,
                             isFirstNFT |-> userNFTCount = 1]])
  /\ UNCHANGED <<store, clock, req, local, statsResp>>

(***************************************************************************)
(* getUserNFTs, one action per await.                                      *)
(***************************************************************************)
\* GET /api/nfts/:walletAddress arrives: paging arithmetic and the format check
ListReceive(p, walletAddress, query) ==
  /\ pc[p] = "idle"
  /\ dbCalls' = [dbCalls EXCEPT ![p] = <<>>]
  /\ LET page == ParseIntOr(query, "page", DefaultPage)
         limit == ParseIntOr(query, "limit", DefaultLimit)
     IN req' = [req EXCEPT ![p] = [walletAddress |-> walletAddress, page |-> page,
                                   limit |-> limit, skip |-> SkipOf(page, limit)]]
  /\ IF BadWalletParam(walletAddress)
       THEN Send(p, 400, [success |-> FALSE,
                          message |-> "Invalid wallet address format"])
       ELSE /\ pc' = [pc EXCEPT ![p] = "find"]
            /\ resp' = resp
  /\ UNCHANGED <<store, clock, local, statsResp>>

\* await NFT.find(...).sort().skip().limit().select().lean() settles: a
\* negative skip is rejected and the catch block answers 500, with the
\* error's own message when NODE_ENV is development
ListFind(p) ==
  /\ pc[p] = "find"
  /\ dbCalls' = [dbCalls EXCEPT ![p] = Append(@, "find")]
  /\ IF req[p].skip < 0
       THEN /\ \E development \in BOOLEAN :
                 Send(p, 500, [success |-> FALSE,
                               message |-> "Failed to fetch NFTs",
                               error |-> IF development THEN "error.message"
                                         ELSE "Internal server error"])
            /\ local' = local
       ELSE /\ \E q \in SortedByCreatedAtDesc(store,
                           MatchOwner(store, OwnerFilter(req[p].walletAddress))) :
                 LET page == SkipLimit(q, req[p].skip, req[p].limit) IN
                 local' = [local EXCEPT ![p] =
                             [nfts |-> [i \in DOMAIN page |-> SelectLean(store[page[i]])]]]
            /\ pc' = [pc EXCEPT ![p] = "count"]
            /\ resp' = resp
  /\ UNCHANGED <<store, clock, req, statsResp>>

\* await NFT.getUserNFTCount(walletAddress) resolves: the 200 answer
ListCount(p) ==
  /\ pc[p] = "count"
  /\ dbCalls' = [dbCalls EXCEPT ![p] = Append(@, "countDocuments")]
  /\ LET totalCount == getUserNFTCount(store, req[p].walletAddress)
         totalPages == CeilDiv(totalCount, req[p].limit)
         nfts == local[p].nfts
         enrichedNFTs == [i \in DOMAIN nfts |-> Enrich(nfts[i], clock)]
         n == Len(enrichedNFTs)
     IN Send(p, 200,
          [success |-> TRUE,
           data |-> [nfts |-> enrichedNFTs,
                     pagination |-> [currentPage |-> req[p].page,
                                     totalPages |-> totalPages,
                                     totalCount |-> totalCount,
                                     hasNextPage |-> req[p].page < totalPages,
                                     hasPrevPage |-> req[p].page > 1,
                                     limit |-> req[p].limit],
                     meta |-> [walletAddress |-> ToLowerCase(req[p].walletAddress),
                               firstNFTDate |-> IF n > 0
                                                  THEN enrichedNFTs[n].eventData.mintedAt
                                                  ELSE Nil,
                               latestNFTDate |-> IF n > 0
                                                   THEN enrichedNFTs[1].eventData.mintedAt
                                                   ELSE Nil]]])
  /\ UNCHANGED <<store, clock, req, local, statsResp>>

\* the response has gone out and the handler's frame is dropped
Finish(p) ==
  /\ pc[p] = "done"
  /\ pc' = [pc EXCEPT ![p] = "idle"]
  /\ req' = [req EXCEPT ![p] = Nil]
  /\ local' = [local EXCEPT ![p] = Nil]
  /\ resp' = [resp EXCEPT ![p] = Nil]
  /\ dbCalls' = [dbCalls EXCEPT ![p] = <<>>]
  /\ UNCHANGED <<store, clock, statsResp>>

(***************************************************************************)
(* getEventStats (a single await), updateStatus and the clock.             *)
(***************************************************************************)
StatsRequest ==
  /\ LET stats == getEventStats(store) IN
     statsResp' = Response(200,
       [success |-> TRUE,
        data |-> [totalMints |-> SumOver(stats, "totalMints"),
                  totalUniqueUsers |-> SumOver(stats, "uniqueUserCount"),
                  events |-> stats],
        timestamp |-> clock])
  /\ statsResp' # statsResp
  /\ UNCHANGED <<store, clock, pc, req, local, resp, dbCalls>>

\* the response of getEventStats has gone out
StatsFinish ==
  /\ statsResp # Nil
  /\ statsResp' = Nil
  /\ UNCHANGED <<store, clock, pc, req, local, resp, dbCalls>>

\* A caller of methods.updateStatus holds a document it has loaded from the
\* collection: the instance keeps the fields as they were at the load.
UpdateLoad(u, i) ==
  /\ pc[u] = "idle"
  /\ i \in Indices(store)
  /\ local' = [local EXCEPT ![u] = store[i]]
  /\ pc' = [pc EXCEPT ![u] = "loaded"]
  /\ UNCHANGED <<store, clock, req, resp, dbCalls, statsResp>>

\* methods.updateStatus on the loaded document: this.status = newStatus,
\* then save() runs its middleware.  A status equal to the loaded one marks
\* no path modified and nothing is written; a validation error rejects the
\* save; otherwise the pre-save hooks run, updatedAt is read from the clock
\* as it stands now, and the update of the modified paths is sent.
UpdateStatus(u, newStatus) ==
  /\ pc[u] = "loaded"
  /\ LET doc == With(local[u], "status", newStatus) IN
     IF newStatus = local[u].status \/ Validate(doc) # {}
       THEN /\ pc' = [pc EXCEPT ![u] = "idle"]
            /\ local' = [local EXCEPT ![u] = Nil]
       ELSE /\ pc' = [pc EXCEPT ![u] = "write"]
            /\ local' = [local EXCEPT ![u] = With(PreSave(doc), "updatedAt", clock)]
  /\ UNCHANGED <<store, clock, req, resp, dbCalls, statsResp>>

\* the update sent by save() reaches the collection: the modified paths,
\* status and updatedAt, are set on the stored document of the instance's
\* _id, whatever the stored document holds by now
UpdateWrite(u) ==
  /\ pc[u] = "write"
  /\ LET i == CHOOSE j \in Indices(store) : store[j]._id = local[u]._id IN
     store' = [store EXCEPT ![i] =
                 With(With(@, "status", local[u].status), "updatedAt", local[u].updatedAt)]
  /\ pc' = [pc EXCEPT ![u] = "idle"]
  /\ local' = [local EXCEPT ![u] = Nil]
  /\ UNCHANGED <<clock, req, resp, dbCalls, statsResp>>

\* a millisecond passes
Tick ==
  /\ clock < StartClock + MaxTicks
  /\ clock' = clock + 1
  /\ UNCHANGED <<store, pc, req, local, resp, dbCalls, statsResp>>

(***************************************************************************)
(* Requests.                                                               *)
(***************************************************************************)
AddrOf(c) == OxPrefix \o Rep(c, AddrHexLen)
HashOf(c) == OxPrefix \o Rep(c, HashHexLen)
CidOf(c) == QmPrefix \o Rep(c, CidBodyLen)
NotAnAddress == <<"n", "o", "t", "-", "a", "n", "-", "a", "d", "d", "r", "e", "s", "s">>

\* a save payload with all six required fields
Body(w, h) ==
  [walletAddress |-> w,
   ipfsCid |-> CidOf("Z"),
   metadataUri |-> IpfsScheme \o CidOf("Z"),
   tokenId |-> <<"7">>,
   contractAddress |-> AddrOf("F"),
   transactionHash |-> h]

\* an ipfsCid that ends like a gateway URL of a CID but holds a line break
BrokenCid == <<"x", "\n">> \o PinataPath \o CidOf("Z")

\* request headers with and without a User-Agent, and the connection
Headers == {EmptyObject, [k \in {"User-Agent"} |-> "Mozilla/5.0"]}
Conn == [ip |-> "203.0.113.9", remoteAddress |-> "203.0.113.9"]
Conns == {Conn, [k \in {"remoteAddress"} |-> "10.0.0.1"], EmptyObject}

\* ?page= and ?limit= as the digits of n
Digit(n) == CASE n = 0 -> "0" [] n = 1 -> "1" [] n = 2 -> "2" [] n = 3 -> "3" [] n = 4 -> "4"
              [] n = 5 -> "5" [] n = 6 -> "6" [] n = 7 -> "7" [] n = 8 -> "8" [] n = 9 -> "9"
Decimal(n) == IF n < 10 THEN <<Digit(n)>> ELSE <<Digit(n \div 10), Digit(n % 10)>>

(***************************************************************************)
(* Spec: one saveNFT and one getUserNFTs request at a time, owners and     *)
(* hashes in both letter cases, with and without a User-Agent.             *)
(***************************************************************************)
Owners == {AddrOf("a"), AddrOf("A"), AddrOf("b")}
Hashes == {HashOf("c"), HashOf("C"), HashOf("d")}

SaveBodies ==
  {Body(w, h) : w \in Owners, h \in Hashes}
  \cup {Body(AddrOf("a"), HashOf("d")) @@ [eventData |-> e] :
          e \in {[mintedAt |-> [num |-> 1]], [eventName |-> "Base Camp"],
                 [mintedAt |-> [str |-> <<"s", "o", "o", "n">>]],
                 [mintedAt |-> [num |-> 0]]}}
  \cup {Body(NotAnAddress, HashOf("d")), Without(Body(AddrOf("a"), HashOf("d")), {"tokenId"}),
        With(Body(AddrOf("a"), HashOf("d")), "ipfsCid", BrokenCid)}

ListOwners == {AddrOf("a"), AddrOf("A"), AddrOf("b"), NotAnAddress}

Next ==
  \/ \E body \in SaveBodies, h \in Headers : SaveReceive("s1", body, h, Conn)
  \/ SaveFindOne("s1")
  \/ SaveValidate("s1")
  \/ SaveInsert("s1")
  \/ SaveCount("s1")
  \/ \E w \in ListOwners : ListReceive("l1", w, EmptyObject)
  \/ ListFind("l1")
  \/ ListCount("l1")
  \/ \E p \in {"s1", "l1"} : Finish(p)

Spec == Init /\ [][Next]_vars

(***************************************************************************)
(* SpecRace: two saveNFT requests in flight, interleaved at their awaits.  *)
(***************************************************************************)
RaceBodies == {Body(w, h) : w \in Owners, h \in Hashes}
UAHeaders == [k \in {"User-Agent"} |-> "Mozilla/5.0"]

NextRace ==
  \/ \E p \in Savers, body \in RaceBodies : SaveReceive(p, body, UAHeaders, Conn)
  \/ \E p \in Savers : SaveFindOne(p)
  \/ \E p \in Savers : SaveValidate(p)
  \/ \E p \in Savers : SaveInsert(p)
  \/ \E p \in Savers : SaveCount(p)
  \/ \E p \in Savers : Finish(p)

SpecRace == Init /\ [][NextRace]_vars

(***************************************************************************)
(* SpecMissing: saveNFT on payloads that lack any subset of the required   *)
(* fields, from connections with and without req.ip, while the clock       *)
(* advances.                                                               *)
(***************************************************************************)
RequiredSet == {RequiredFields[i] : i \in DOMAIN RequiredFields}
MissingBodies == {Without(Body(AddrOf("a"), HashOf("c")), S) : S \in SUBSET RequiredSet}

NextMissing ==
  \/ \E body \in MissingBodies, h \in Headers, c \in Conns : SaveReceive("s1", body, h, c)
  \/ SaveFindOne("s1")
  \/ SaveValidate("s1")
  \/ SaveInsert("s1")
  \/ SaveCount("s1")
  \/ Finish("s1")
  \/ Tick

SpecMissing == Init /\ [][NextMissing]_vars

(***************************************************************************)
(* SpecPage: one owner's records accumulate while the clock advances, and  *)
(* getUserNFTs is called with ?page= and ?limit=.                          *)
(***************************************************************************)
\* the owner submits the next fresh hash, with its mint time, and once
\* MaxRecords are stored the last one again
HashLetters == <<"c", "d", "e", "f">>
PageBodies ==
  {Body(AddrOf("a"),
        HashOf(HashLetters[IF Len(store) < MaxRecords THEN Len(store) + 1 ELSE MaxRecords]))
     @@ [eventData |-> [mintedAt |-> [num |-> 1]]]}
Queries ==
  {EmptyObject}
  \cup {[page |-> Decimal(pg), limit |-> Decimal(lm)] : pg \in 1..MaxPageArg, lm \in 1..MaxLimitArg}
  \cup {[page |-> <<"2", "n", "d">>, limit |-> <<"a", "l", "l">>],
        [page |-> <<"0">>, limit |-> <<"0">>],
        [page |-> <<"-", "1">>],
        [page |-> <<VerticalTab, " ", "+", "2">>, limit |-> <<"0", "x", "1">>],
        [limit |-> <<"-", "2">>]}
BadOwners == {NotAnAddress, <<>>, OxPrefix \o Rep("a", AddrHexLen - 1),
              OxPrefix \o Rep("g", AddrHexLen), <<"0", "X">> \o Rep("a", AddrHexLen)}

NextPage ==
  \/ \E body \in PageBodies : SaveReceive("s1", body, UAHeaders, Conn)
  \/ SaveFindOne("s1")
  \/ SaveValidate("s1")
  \/ SaveInsert("s1")
  \/ SaveCount("s1")
  \/ \E q \in Queries : ListReceive("l1", AddrOf("A"), q)
  \/ \E w \in BadOwners, q \in {EmptyObject, [page |-> <<"2">>]} : ListReceive("l1", w, q)
  \/ ListFind("l1")
  \/ ListCount("l1")
  \/ \E p \in {"s1", "l1"} : Finish(p)
  \/ Tick

SpecPage == Init /\ [][NextPage]_vars

(***************************************************************************)
(* SpecStats: two records are saved, of one owner or of two; two callers   *)
(* of updateStatus load the first record and set its status, each at its   *)
(* own pace; and the counts, the listing and the statistics are read, by   *)
(* a client that asks for the statistics before or after a listing.        *)
(***************************************************************************)
\* the first record is minted at 1, the second at 2 by the same owner (in
\* upper case) or by another
StatsBodies ==
  IF Len(store) = 0
    THEN {Body(AddrOf("a"), HashOf("c")) @@ [eventData |-> [mintedAt |-> [num |-> 1]]]}
  ELSE IF Len(store) = 1
    THEN {Body(w, HashOf("d")) @@ [eventData |-> [mintedAt |-> [num |-> 2]]] :
            w \in {AddrOf("A"), AddrOf("B")}}
  ELSE {}

\* the statuses updateStatus is called with: the enum and one outside it
NewStatuses == StatusEnum \cup {"minted"}

NextStats ==
  \/ \E body \in StatsBodies : SaveReceive("s1", body, UAHeaders, Conn)
  \/ SaveFindOne("s1")
  \/ SaveValidate("s1")
  \/ SaveInsert("s1")
  \/ SaveCount("s1")
  \/ (statsResp = Nil /\ ListReceive("l1", AddrOf("A"), EmptyObject))
  \/ ListFind("l1")
  \/ ListCount("l1")
  \/ \E p \in {"s1", "l1"} : Finish(p)
  \/ (pc["l1"] \in {"idle", "done"} /\ StatsRequest)
  \/ StatsFinish
  \/ UpdateLoad("u1", 1)
  \/ \E st \in NewStatuses : UpdateStatus("u1", st)
  \/ UpdateLoad("u2", 1)
  \/ UpdateStatus("u2", "failed")
  \/ \E u \in Updaters : UpdateWrite(u)

SpecStats == Init /\ [][NextStats]_vars

(***************************************************************************)
(* SpecUpdate: one record is saved and two callers of updateStatus work on *)
(* it while the clock advances.                                            *)
(***************************************************************************)
NextUpdate ==
  \/ (store = <<>> /\ SaveReceive("s1", Body(AddrOf("a"), HashOf("c")), UAHeaders, Conn))
  \/ SaveFindOne("s1")
  \/ SaveValidate("s1")
  \/ SaveInsert("s1")
  \/ SaveCount("s1")
  \/ Finish("s1")
  \/ \E u \in Updaters, i \in Indices(store) : UpdateLoad(u, i)
  \/ \E u \in Updaters, st \in NewStatuses : UpdateStatus(u, st)
  \/ \E u \in Updaters : UpdateWrite(u)
  \/ Tick

SpecUpdate == Init /\ [][NextUpdate]_vars

(***************************************************************************)
(* Vocabulary of the properties.  Letter case is judged here character by  *)
(* character, independently of ToLowerCase.                                *)
(***************************************************************************)
Fold(c) == IF c \in UpperLetters THEN UpperToLower[c] ELSE c
SameIgnoringCase(s, t) == Len(s) = Len(t) /\ \A i \in 1..Len(s) : Fold(s[i]) = Fold(t[i])
IsLowerCase(s) == \A i \in 1..Len(s) : s[i] \notin UpperLetters
Lowered(s) == [i \in 1..Len(s) |-> Fold(s[i])]

SeqRange(q) == {q[i] : i \in DOMAIN q}

\* the request p serves is a saveNFT request in flight or answered
Saving(p) == p \in Savers /\ pc[p] # "idle"
Answered(p) == pc[p] = "done"

\* a save payload that has the six required fields in their formats
WellFormed(body) ==
  /\ \A i \in DOMAIN RequiredFields : Has(body, RequiredFields[i])
  /\ IsAddress(body.walletAddress) /\ IsAddress(body.contractAddress)
  /\ IsTxHash(body.transactionHash)
  /\ IsCid(body.ipfsCid) /\ IsIpfsUri(body.metadataUri)
  /\ ("eventData" \in DOMAIN body /\ "eventName" \in DOMAIN body.eventData
        => body.eventData.eventName = DefaultEventName)

\* the stored records whose transactionHash is h up to letter case
StoredWithHash(h) == {i \in Indices(store) : SameIgnoringCase(store[i].transactionHash, h)}

\* p's save request was answered, and its transactionHash is stored in a
\* record that p's request did not insert: p is a repeated save
IsRepeat(p) ==
  /\ p \in Savers /\ Answered(p)
  /\ WellFormed(req[p].body)
  /\ \E i \in StoredWithHash(req[p].body.transactionHash) :
       ~(resp[p].status = 201 /\ resp[p].body.data._id = store[i]._id)

(***************************************************************************)
(* C1. A saveNFT whose transactionHash is already stored by an earlier,    *)
(* completed call leaves exactly one record for the hash.  As claimed: the *)
(* second response is success-shaped and carries the stored record.        *)
(***************************************************************************)
C1_RepeatIsSuccess ==
  \A p \in Savers : IsRepeat(p) =>
    /\ Cardinality(StoredWithHash(req[p].body.transactionHash)) = 1
    /\ resp[p].body.success = TRUE
    /\ "data" \in DOMAIN resp[p].body
    /\ \E i \in StoredWithHash(req[p].body.transactionHash) :
         resp[p].body.data = ToJSON(store[i])

(***************************************************************************)
(* C2. Two saveNFT requests with the same transactionHash up to letter     *)
(* case that both passed the findOne check and both sent their insert:     *)
(* exactly one is answered 201 and the other 409, and one record is        *)
(* stored; and never are two requests for one hash both past their insert. *)
(***************************************************************************)
Inserted(p) == pc[p] = "count" \/ (Answered(p) /\ resp[p].status = 201)
SentInsert(p) == "insertOne" \in SeqRange(dbCalls[p])

C2_OneWinner ==
  \A p, q \in Savers :
    (/\ p # q /\ Saving(p) /\ Saving(q)
     /\ WellFormed(req[p].body) /\ WellFormed(req[q].body)
     /\ SameIgnoringCase(req[p].body.transactionHash, req[q].body.transactionHash))
    => /\ ~(Inserted(p) /\ Inserted(q))
       /\ (Answered(p) /\ Answered(q) /\ SentInsert(p) /\ SentInsert(q)
             => /\ {resp[p].status, resp[q].status} = {201, 409}
                /\ Cardinality(StoredWithHash(req[p].body.transactionHash)) = 1)

C2_Witness ==
  \E p, q \in Savers :
    /\ p # q /\ Answered(p) /\ Answered(q) /\ SentInsert(p) /\ SentInsert(q)
    /\ req[p].body.transactionHash # req[q].body.transactionHash
    /\ SameIgnoringCase(req[p].body.transactionHash, req[q].body.transactionHash)
    /\ resp[p].status = 201 /\ resp[q].status = 409

(***************************************************************************)
(* C3. No two stored records have the same transactionHash up to letter    *)
(* case, and every stored walletAddress, contractAddress and               *)
(* transactionHash is in lower case; so a save whose hash differs only in  *)
(* letter case from a stored one is answered as a duplicate, and a listing *)
(* by an owner address in another letter case returns the owner's records. *)
(***************************************************************************)
C3_StoreNormalized ==
  /\ \A i, j \in Indices(store) :
       i # j => ~SameIgnoringCase(store[i].transactionHash, store[j].transactionHash)
  /\ \A i \in Indices(store) :
       /\ IsLowerCase(store[i].walletAddress)
       /\ IsLowerCase(store[i].contractAddress)
       /\ IsLowerCase(store[i].transactionHash)

C3_CaseVariantIsDuplicate ==
  \A p \in Savers : IsRepeat(p) => resp[p].status = 409

\* the step in which the find of p's getUserNFTs resolves
FindResolves(p) == pc[p] = "find" /\ pc'[p] = "count"

C3_ListingIgnoresCase ==
  \A p \in Listers : FindResolves(p) /\ req[p].limit > Len(store) /\ req[p].page = 1 =>
    {local'[p].nfts[k]._id : k \in DOMAIN local'[p].nfts}
      = {store[i]._id : i \in {j \in Indices(store) :
                                 /\ SameIgnoringCase(store[j].walletAddress, req[p].walletAddress)
                                 /\ store[j].status = "confirmed"}}

C3_CaseInsensitive ==
  /\ [](C3_StoreNormalized /\ C3_CaseVariantIsDuplicate)
  /\ [][C3_ListingIgnoresCase]_vars

C3_Witness ==
  /\ Len(store) = 2
  /\ \E p \in Savers : IsRepeat(p) /\ ~IsLowerCase(req[p].body.transactionHash)
  /\ \E p \in Listers :
       /\ Answered(p) /\ resp[p].status = 200
       /\ ~IsLowerCase(req[p].walletAddress)
       /\ Len(resp[p].body.data.nfts) = 2

(***************************************************************************)
(* C4. A saveNFT whose payload lacks a non-empty set S of the six required *)
(* fields is answered 400.  As claimed: the list of fields in the answer   *)
(* names exactly the fields in S.                                          *)
(***************************************************************************)
Lacking(body) == {f \in RequiredSet : f \notin DOMAIN body}

C4_NamesExactlyAbsent ==
  \A p \in Savers : Answered(p) /\ Lacking(req[p].body) # {} =>
    /\ resp[p].status = 400
    /\ "required" \in DOMAIN resp[p].body
    /\ SeqRange(resp[p].body.required) = Lacking(req[p].body)

(***************************************************************************)
(* C5. For an owner with N confirmed records and positive page and limit,  *)
(* getUserNFTs returns the records at positions (page-1)*limit+1 through   *)
(* min(page*limit, N) of the owner's records in descending createdAt, with *)
(* totalCount = N, totalPages = ceil(N/limit), hasNextPage iff page <      *)
(* totalPages and hasPrevPage iff page > 1.  The find and the count are    *)
(* two reads of the store: each is stated of the records at its read.      *)
(***************************************************************************)
\* the positions of the confirmed records of the owner of p's request
OwnersRecords(p) ==
  {i \in Indices(store) :
     /\ SameIgnoringCase(store[i].walletAddress, req[p].walletAddress)
     /\ store[i].status = "confirmed"}

\* the orders of the positions S that descend in createdAt
Descending(S) ==
  {q \in [1..Cardinality(S) -> S] :
     /\ \A i, j \in DOMAIN q : i # j => q[i] # q[j]
     /\ \A i \in DOMAIN q : i > 1 => store[q[i - 1]].createdAt >= store[q[i]].createdAt}


Least(a, b) == IF a < b THEN a ELSE b

\* the step in which the count of p's getUserNFTs resolves and it answers
CountResolves(p) == pc[p] = "count" /\ pc'[p] = "done"

\* page and limit of p's request are positive integers
PositivePaging(p) == req[p].page >= 1 /\ req[p].limit >= 1

C5_PageOfFind ==
  \A p \in Listers : FindResolves(p) /\ PositivePaging(p) =>
    LET N == Cardinality(OwnersRecords(p))
        first == (req[p].page - 1) * req[p].limit + 1
        last == Least(req[p].page * req[p].limit, N)
        nfts == local'[p].nfts
    IN /\ Len(nfts) = (IF last >= first THEN last - first + 1 ELSE 0)
       /\ \E q \in Descending(OwnersRecords(p)) :
            \A k \in DOMAIN nfts : nfts[k]._id = store[q[first + k - 1]]._id

C5_PaginationOfCount ==
  \A p \in Listers : CountResolves(p) /\ PositivePaging(p) =>
    LET N == Cardinality(OwnersRecords(p))
        pg == resp'[p].body.data.pagination
        out == resp'[p].body.data.nfts
    IN /\ resp'[p].status = 200
       /\ pg.totalCount = N
       /\ pg.totalPages * req[p].limit >= N
       /\ (pg.totalPages - 1) * req[p].limit < N \/ (N = 0 /\ pg.totalPages = 0)
       /\ pg.hasNextPage = (req[p].page < pg.totalPages)
       /\ pg.hasPrevPage = (req[p].page > 1)
       /\ pg.currentPage = req[p].page /\ pg.limit = req[p].limit
       /\ Len(out) = Len(local[p].nfts)
       /\ \A k \in DOMAIN out : \A f \in DOMAIN local[p].nfts[k] : out[k][f] = local[p].nfts[k][f]

C5_Pagination == [][C5_PageOfFind /\ C5_PaginationOfCount]_vars

\* three records, page 2 of pages of 2: the oldest record alone, no next page
C5_Witness ==
  \E p \in Listers :
    /\ Answered(p) /\ resp[p].status = 200
    /\ req[p].page = 2 /\ req[p].limit = 2
    /\ Len(store) = 3
    /\ store[1].createdAt < store[2].createdAt
    /\ Len(resp[p].body.data.nfts) = 1
    /\ resp[p].body.data.nfts[1]._id = 1
    /\ resp[p].body.data.pagination.totalCount = 3
    /\ resp[p].body.data.pagination.totalPages = 2
    /\ ~resp[p].body.data.pagination.hasNextPage
    /\ resp[p].body.data.pagination.hasPrevPage

(***************************************************************************)
(* C7. getUserNFTs on a walletAddress that is not 0x and 40 hex characters *)
(* is answered 400 "Invalid wallet address format" without any store       *)
(* operation.                                                              *)
(***************************************************************************)
C7_MalformedOwnerRejected ==
  \A p \in Listers : pc[p] # "idle" /\ req[p].walletAddress \in BadOwners =>
    /\ Answered(p)
    /\ resp[p].status = 400
    /\ resp[p].body.success = FALSE
    /\ resp[p].body.message = "Invalid wallet address format"
    /\ dbCalls[p] = <<>>

C7_Witness ==
  \E p \in Listers :
    /\ Answered(p) /\ resp[p].status = 400
    /\ req[p].walletAddress = OxPrefix \o Rep("g", AddrHexLen)
    /\ Len(store) > 0

(***************************************************************************)
(* C6. After a successful saveNFT(P) for an owner with no other record,    *)
(* getUserNFTs(P.walletAddress) with default paging returns exactly one    *)
(* record: walletAddress, contractAddress and transactionHash are P's in   *)
(* lower case, ipfsCid, metadataUri and tokenId are P's.                   *)
(***************************************************************************)
\* the stored records of the owner of the payload of s, whatever their status
RecordsOfOwner(w) == {i \in Indices(store) : SameIgnoringCase(store[i].walletAddress, w)}

MatchesPayload(nft, P) ==
  /\ nft.walletAddress = Lowered(P.walletAddress)
  /\ nft.contractAddress = Lowered(P.contractAddress)
  /\ nft.transactionHash = Lowered(P.transactionHash)
  /\ nft.ipfsCid = P.ipfsCid
  /\ nft.metadataUri = P.metadataUri
  /\ nft.tokenId = P.tokenId

C6_FindAfterSave ==
  \A l \in Listers, s \in Savers :
    (/\ FindResolves(l)
     /\ Answered(s) /\ resp[s].status = 201
     /\ SameIgnoringCase(req[l].walletAddress, req[s].body.walletAddress)
     /\ req[l].page = 1 /\ req[l].limit = 10
     /\ Cardinality(RecordsOfOwner(req[s].body.walletAddress)) = 1)
    => /\ Len(local'[l].nfts) = 1
       /\ local'[l].nfts[1]._id = resp[s].body.data._id
       /\ MatchesPayload(local'[l].nfts[1], req[s].body)

C6_AnswerCarriesFound ==
  \A l \in Listers : CountResolves(l) =>
    /\ Len(resp'[l].body.data.nfts) = Len(local[l].nfts)
    /\ \A k \in DOMAIN local[l].nfts : \A f \in DOMAIN local[l].nfts[k] :
         resp'[l].body.data.nfts[k][f] = local[l].nfts[k][f]

C6_SaveThenList == [][C6_FindAfterSave /\ C6_AnswerCarriesFound]_vars

C6_Witness ==
  \E l \in Listers, s \in Savers :
    /\ Answered(l) /\ resp[l].status = 200
    /\ Answered(s) /\ resp[s].status = 201
    /\ ~IsLowerCase(req[s].body.walletAddress)
    /\ ~IsLowerCase(req[s].body.transactionHash)
    /\ req[l].walletAddress = req[s].body.walletAddress
    /\ Cardinality(RecordsOfOwner(req[s].body.walletAddress)) = 1
    /\ Len(resp[l].body.data.nfts) = 1
    /\ resp[l].body.data.nfts[1]._id = resp[s].body.data._id

(***************************************************************************)
(* C8. No response carries the userAgent or the ipAddress of a stored      *)
(* record: not the records of getUserNFTs, not the record of a 201 of      *)
(* saveNFT, not the existing record of its 409.                            *)
(***************************************************************************)
Analytics == {"userAgent", "ipAddress"}

C8_AnalyticsNeverReturned ==
  /\ \A p \in Listers : Answered(p) /\ resp[p].status = 200 =>
       \A k \in DOMAIN resp[p].body.data.nfts :
         DOMAIN resp[p].body.data.nfts[k] \cap Analytics = {}
  /\ \A p \in Savers : Answered(p) /\ "data" \in DOMAIN resp[p].body =>
       DOMAIN resp[p].body.data \cap Analytics = {}

(***************************************************************************)
(* C9. A record whose status is pending or failed is not counted by        *)
(* getUserNFTCount, not returned by getUserNFTs, and adds nothing to the   *)
(* totalMints, uniqueUserCount, firstMint or lastMint of a group of        *)
(* getEventStats.  Each read is stated of the store at its step.           *)
(***************************************************************************)
Confirmed == {i \in Indices(store) : store[i].status = "confirmed"}
ConfirmedOf(w) == {i \in Confirmed : SameIgnoringCase(store[i].walletAddress, w)}
ConfirmedIn(name) == {i \in Confirmed : store[i].eventData.eventName = name}

C9_CountSkipsUnconfirmed ==
  /\ \A p \in Savers : pc[p] = "count" /\ pc'[p] = "done" =>
       resp'[p].body.meta.userTotalNFTs = Cardinality(ConfirmedOf(req[p].body.walletAddress))
  /\ \A p \in Listers : CountResolves(p) =>
       resp'[p].body.data.pagination.totalCount = Cardinality(ConfirmedOf(req[p].walletAddress))

C9_FindSkipsUnconfirmed ==
  \A p \in Listers : FindResolves(p) =>
    {local'[p].nfts[k]._id : k \in DOMAIN local'[p].nfts}
      \subseteq {store[i]._id : i \in Confirmed}

\* the step in which getEventStats answers
StatsAnswers == statsResp' # statsResp /\ statsResp' # Nil

C9_StatsSkipUnconfirmed ==
  StatsAnswers =>
    LET events == statsResp'.body.data.events IN
    /\ {g.eventName : g \in events} = {store[i].eventData.eventName : i \in Confirmed}
    /\ \A g \in events :
         LET G == ConfirmedIn(g.eventName) IN
         /\ g.totalMints = Cardinality(G)
         /\ g.uniqueUserCount = Cardinality({store[i].walletAddress : i \in G})
         /\ \E i \in G : g.firstMint = store[i].eventData.mintedAt
         /\ \E i \in G : g.lastMint = store[i].eventData.mintedAt
         /\ \A i \in G : g.firstMint <= store[i].eventData.mintedAt
         /\ \A i \in G : g.lastMint >= store[i].eventData.mintedAt

C9_OnlyConfirmedRead ==
  [][C9_CountSkipsUnconfirmed /\ C9_FindSkipsUnconfirmed /\ C9_StatsSkipUnconfirmed]_vars

\* The first stored record (minted at 1) is older than the second (minted at
\* 2) and of the same owner, yet the listing and the statistics hold the
\* second alone: the first was pending or failed when they were read.
C9_Witness ==
  /\ Len(store) = 2
  /\ store[1].status # "confirmed"
  /\ store[1].walletAddress = store[2].walletAddress
  /\ statsResp # Nil
  /\ \E g \in statsResp.body.data.events :
       g.totalMints = 1 /\ g.uniqueUserCount = 1 /\ g.firstMint = 2 /\ g.lastMint = 2
  /\ \E p \in Listers :
       /\ Answered(p) /\ resp[p].status = 200
       /\ Len(resp[p].body.data.nfts) = 1
       /\ resp[p].body.data.nfts[1]._id = 2
       /\ resp[p].body.data.pagination.totalCount = 1

(***************************************************************************)
(* C10. In every 201 of saveNFT, isFirstNFT is true exactly when the       *)
(* record the request inserted is the owner's first stored record, and     *)
(* userTotalNFTs is the owner's count right after that insert, in every    *)
(* interleaving of the owner's saves.  (No status changes under SpecRace:  *)
(* the count right after the insert of the record at position k is the     *)
(* number of the owner's records at positions up to k.)                    *)
(***************************************************************************)
PositionOf(id) == CHOOSE i \in Indices(store) : store[i]._id = id
CountAfterInsert(id) ==
  Cardinality({i \in 1..PositionOf(id) : store[i].walletAddress = store[PositionOf(id)].walletAddress})

C10_FirstFlagExact ==
  \A p \in Savers : Answered(p) /\ resp[p].status = 201 =>
    /\ resp[p].body.meta.userTotalNFTs = CountAfterInsert(resp[p].body.data._id)
    /\ resp[p].body.meta.isFirstNFT = (CountAfterInsert(resp[p].body.data._id) = 1)

====
